---- MODULE Spec2Model ----
(***************************************************************************)
(* Irrigation analytics: the time-window aggregation and year-over-year    *)
(* comparison engine (internal/service/analytics_service.go) over the      *)
(* aggregation queries of the irrigation repository.                       *)
(*                                                                         *)
(* Numbers.  The Go code computes in float64; the model computes the same  *)
(* formulas in exact decimal fixed point:                                  *)
(*   amounts (water volume, real, nominal)  integers counting 0.001        *)
(*   efficiencies                           integers counting 0.000001     *)
(*   percentages                            integers counting 0.01         *)
(*   durations                              whole minutes                  *)
(* Stored amounts are decimal(10,2) columns, so they are multiples of 10.  *)
(* math.Round rounds half away from zero; RoundQuot does the same.         *)
(*                                                                         *)
(* Time.  An instant is  day * TicksPerDay + tick , day counted from       *)
(* 1970-01-01 in the proleptic Gregorian calendar.                         *)
(***************************************************************************)
EXTENDS Integers, Sequences, FiniteSets, TLC

(***************************************************************************)
(* Bounds of the model                                                     *)
(***************************************************************************)
\* instants per calendar day (time of day is  tick \in 0..TicksPerDay-1)
TicksPerDay == 2
\* the store holds at most this many irrigation events
MaxEvents == 2
\* the pure functions are called on every small amount up to this one
MaxAmount == 7
\* requests that pass the logging middleware concurrently
MaxRequests == 3

(***************************************************************************)
(* Exact arithmetic for the float64 formulas                               *)
(***************************************************************************)
Abs(x) == IF x < 0 THEN -x ELSE x

Sign(x) == IF x < 0 THEN -1 ELSE 1

\* <<floor(a * 10^k / d), remainder>> for a >= 0, d > 0, by long division
RECURSIVE LongDiv(_, _, _)
LongDiv(a, d, k) ==
    IF k = 0 THEN <<a \div d, a % d>>
    ELSE LET p == LongDiv(a, d, k - 1)
         IN  <<p[1] * 10 + ((p[2] * 10) \div d), (p[2] * 10) % d>>

\* math.Round(n / d * 10^k): nearest integer, halves away from zero (d # 0)
RoundQuot(n, d, k) ==
    LET p == LongDiv(Abs(n), Abs(d), k)
    IN  Sign(n) * Sign(d) * (p[1] + (IF 2 * p[2] >= Abs(d) THEN 1 ELSE 0))

\* math.Round(x*100)/100 on an amount counted in 0.001
Round2(x) == RoundQuot(x, 10, 0) * 10

\* math.Round(x*10000)/10000 on an efficiency counted in 0.000001
Round4(x) == RoundQuot(x, 100, 0) * 100

(***************************************************************************)
(* Calendar: time.AddDate, DATE() and DATE_TRUNC                           *)
(***************************************************************************)
\* day number of the civil date y-m-d; a day past the end of the month
\* runs into the next month, as time.Date normalises it
DaysFromCivil(y, m, d) ==
    LET yy  == IF m <= 2 THEN y - 1 ELSE y
        era == yy \div 400
        yoe == yy - era * 400
        mp  == IF m > 2 THEN m - 3 ELSE m + 9
        doy == ((153 * mp + 2) \div 5) + d - 1
        doe == yoe * 365 + (yoe \div 4) - (yoe \div 100) + doy
    IN  era * 146097 + doe - 719468

\* the civil date <<y, m, d>> of a day number
CivilFromDays(z) ==
    LET zz  == z + 719468
        era == zz \div 146097
        doe == zz - era * 146097
        yoe == (doe - (doe \div 1460) + (doe \div 36524) - (doe \div 146096)) \div 365
        doy == doe - (365 * yoe + (yoe \div 4) - (yoe \div 100))
        mp  == (5 * doy + 2) \div 153
        d   == doy - ((153 * mp + 2) \div 5) + 1
        m   == IF mp < 10 THEN mp + 3 ELSE mp - 9
        y   == yoe + era * 400 + (IF m <= 2 THEN 1 ELSE 0)
    IN  <<y, m, d>>

DayOf(t) == t \div TicksPerDay

TickOf(t) == t % TicksPerDay

\* the instant y-m-d at time of day tick
At(y, m, d, tick) == DaysFromCivil(y, m, d) * TicksPerDay + tick

\* AddYears gone wrong: a year is taken as 365 days
AddYearsFixed(t, years) == t + years * 365 * TicksPerDay

\* t.AddDate(years, 0, 0)
AddYears(t, years) ==
    LET c == CivilFromDays(DayOf(t))
    IN  DaysFromCivil(c[1] + years, c[2], c[3]) * TicksPerDay + TickOf(t)

\* DATE(start_time)::timestamp
TruncDay(t) == DayOf(t) * TicksPerDay

\* DATE_TRUNC('week', start_time): the Monday of the ISO week (day 0 is a Thursday)
TruncWeek(t) == (DayOf(t) - ((DayOf(t) + 3) % 7)) * TicksPerDay

\* DATE_TRUNC('month', start_time)
TruncMonth(t) ==
    LET c == CivilFromDays(DayOf(t))
    IN  DaysFromCivil(c[1], c[2], 1) * TicksPerDay

\* the bucket start the switch on aggregation selects (default: daily)
BucketStart(aggregation, t) ==
    CASE aggregation = "weekly"  -> TruncWeek(t)
      [] aggregation = "monthly" -> TruncMonth(t)
      [] OTHER                   -> TruncDay(t)

(***************************************************************************)
(* The stored irrigation events                                            *)
(***************************************************************************)
Farms == {1, 2}

\* sector ids; 0 is a valid id
Sectors == {0, 1}

\* an optional sector filter (*uint): {} is nil, {s} points at s
SectorFilters == {{}} \cup {{s} : s \in Sectors}

\* the requested window [WindowStart, WindowEnd)
WindowStart == At(2024, 3, 1, 0)

WindowEnd == At(2024, 3, 3, 0)

\* <<WaterVolume, Duration, NominalAmount, RealAmount>> of a stored event
Recorded == <<1230, 2, 3000, 1000>>

Legacy == <<1230, 2, 0, 0>>

NothingReal == <<500, 1, 1000, 0>>

Nothing == <<0, 0, 0, 0>>

Event(f, s, t, m) ==
    [FarmID |-> f, IrrigationSectorID |-> s, StartTime |-> t,
     WaterVolume |-> m[1], Duration |-> m[2],
     NominalAmount |-> m[3], RealAmount |-> m[4]]

\* the instants of stored events: two days inside the window, and dates one
\* and two years before it
Day1 == At(2024, 3, 1, 1)

Day2 == At(2024, 3, 2, 0)

YearAgo == At(2023, 3, 1, 0)

TwoYearsAgo == At(2022, 3, 2, 1)

\* rows the irrigation_data table may hold
Events ==
    {Event(1, 0, Day1, m) : m \in {Recorded, Legacy, NothingReal}}
    \cup {Event(1, 1, Day1, m) : m \in {Recorded, Legacy}}
    \cup {Event(1, 0, Day2, m) : m \in {Legacy, Nothing}}
    \cup {Event(1, 0, YearAgo, m) : m \in {Recorded, Nothing}}
    \cup {Event(1, 1, YearAgo, Recorded), Event(1, 0, TwoYearsAgo, Legacy),
          Event(1, 0, WindowEnd, Recorded), Event(2, 0, Day1, Recorded),
          Event(1, 1, WindowStart, Recorded)}

RECURSIVE SubsetsUpTo(_, _)
SubsetsUpTo(S, n) ==
    IF n = 0 THEN {{}}
    ELSE LET smaller == SubsetsUpTo(S, n - 1)
         IN  smaller \cup {T \cup {e} : T \in smaller, e \in S}

Stores == SubsetsUpTo(Events, MaxEvents)

(***************************************************************************)
(* irrigationRepository: the aggregation queries                           *)
(***************************************************************************)
RECURSIVE SumOf(_, _)
SumOf(S, field) ==
    IF S = {} THEN 0
    ELSE LET e == CHOOSE x \in S : TRUE
         IN  e[field] + SumOf(S \ {e}, field)

\* MatchingRows gone wrong: the end of the window is taken inclusive
MatchingRowsInclusive(rows, farmID, sectorID, startDate, endDate) ==
    { e \in rows : /\ e.FarmID = farmID
                   /\ e.StartTime >= startDate
                   /\ e.StartTime <= endDate
                   /\ (sectorID # {} => e.IrrigationSectorID \in sectorID) }

\* WHERE farm_id = ? AND start_time >= ? AND start_time < ?
\*   [AND irrigation_sector_id = ?]
MatchingRows(rows, farmID, sectorID, startDate, endDate) ==
    { e \in rows : /\ e.FarmID = farmID
                   /\ e.StartTime >= startDate
                   /\ e.StartTime < endDate
                   /\ (sectorID # {} => e.IrrigationSectorID \in sectorID) }

\* GROUP BY <bucket>, farm_id, irrigation_sector_id with the SUM/COUNT columns,
\* converted to AggregatedDataWithCount
Buckets(rows, farmID, sectorID, startDate, endDate, aggregation) ==
    LET m == MatchingRows(rows, farmID, sectorID, startDate, endDate)
        keys == {<<BucketStart(aggregation, e.StartTime), e.IrrigationSectorID>> : e \in m}
        group(k) == {e \in m : /\ BucketStart(aggregation, e.StartTime) = k[1]
                               /\ e.IrrigationSectorID = k[2]}
    IN  { [StartTime |-> k[1], FarmID |-> farmID, IrrigationSectorID |-> k[2],
           WaterVolume |-> SumOf(group(k), "WaterVolume"),
           Duration |-> SumOf(group(k), "Duration"),
           NominalAmount |-> SumOf(group(k), "NominalAmount"),
           RealAmount |-> SumOf(group(k), "RealAmount"),
           EventCount |-> Cardinality(group(k))] : k \in keys }

\* ORDER BY <bucket> ASC: every listing of the buckets that ascends by bucket
\* start; rows of one bucket start (different sectors) come in any order
RECURSIVE Ascending(_)
Ascending(S) ==
    IF S = {} THEN {<<>>}
    ELSE LET first == {b \in S : \A c \in S : b.StartTime <= c.StartTime}
         IN  UNION {{<<b>> \o t : t \in Ascending(S \ {b})} : b \in first}

\* the result sets GetAggregatedData may return when the query succeeds
GetAggregatedData(rows, farmID, sectorID, startDate, endDate, aggregation) ==
    Ascending(Buckets(rows, farmID, sectorID, startDate, endDate, aggregation))

\* yearStart and yearEnd: the bounds of the window yearsBack years before
historicalWindow(startDate, endDate, yearsBack) ==
    [yearStart |-> AddYears(startDate, -yearsBack),
     yearEnd   |-> AddYears(endDate, -yearsBack)]

\* the result sets GetYearOverYearData may return when the query succeeds
GetYearOverYearData(rows, farmID, sectorID, startDate, endDate, aggregation, yearsBack) ==
    LET w == historicalWindow(startDate, endDate, yearsBack)
    IN  Ascending(Buckets(rows, farmID, sectorID, w.yearStart, w.yearEnd, aggregation))

\* errors the data source may return from a query
DbErrors == {"connection refused", "query timeout"}

(***************************************************************************)
(* analyticsService: the pure computations                                 *)
(***************************************************************************)
\* the rational n/d of efficiencies rounded to 4 decimals
Round4Of(n, d) == RoundQuot(n, d * 100, 0) * 100

\* calculateEfficiency gone wrong: the quotient is cut after 4 decimals
calculateEfficiencyTruncated(realAmount, nominalAmount) ==
    IF nominalAmount = 0 THEN 0
    ELSE Sign(realAmount) * Sign(nominalAmount)
         * LongDiv(Abs(realAmount), Abs(nominalAmount), 4)[1] * 100

\* real / nominal rounded to 4 decimals, 0.0 when nominal is 0
calculateEfficiency(realAmount, nominalAmount) ==
    IF nominalAmount = 0 THEN 0
    ELSE RoundQuot(realAmount, nominalAmount, 4) * 100

\* float64(d.Duration) * 1.0, one litre per minute
nominalVolume(d) == d.Duration * 1000

\* the efficiency processDataPoints reports for one bucket
pointEfficiency(d) ==
    LET efficiency == calculateEfficiency(d.RealAmount, d.NominalAmount)
    IN  IF d.RealAmount = 0 /\ d.NominalAmount = 0 /\ d.WaterVolume > 0 /\ d.Duration > 0
        THEN calculateEfficiency(d.WaterVolume, nominalVolume(d))
        ELSE efficiency

\* a Go slice: the nil slice, or a slice with its items
NilSlice == [isNil |-> TRUE, items |-> <<>>]

Slice(items) == [isNil |-> FALSE, items |-> items]

\* dataPoint gone wrong: every bucket is taken for one event
dataPointCounted(d) ==
    [Period        |-> d.StartTime,
     WaterVolume   |-> d.WaterVolume,
     Duration      |-> d.Duration,
     Efficiency    |-> pointEfficiency(d),
     EventCount    |-> 1,
     RealAmount    |-> d.RealAmount,
     NominalAmount |-> d.NominalAmount]

\* the AggregatedDataPoint of one bucket
dataPoint(d) ==
    [Period        |-> d.StartTime,
     WaterVolume   |-> d.WaterVolume,
     Duration      |-> d.Duration,
     Efficiency    |-> pointEfficiency(d),
     EventCount    |-> d.EventCount,
     RealAmount    |-> d.RealAmount,
     NominalAmount |-> d.NominalAmount]

\* processDataPoints gone wrong: the points are appended to a nil slice
processDataPointsNil(data) ==
    IF Len(data) = 0 THEN NilSlice
    ELSE Slice([i \in 1..Len(data) |-> dataPoint(data[i])])

\* points := make([]AggregatedDataPoint, 0, len(data)) and one append per bucket
processDataPoints(data) ==
    Slice([i \in 1..Len(data) |-> dataPoint(data[i])])

\* the efficiency calculateSummary folds for one bucket
summaryEfficiency(d) ==
    LET efficiency == calculateEfficiency(d.RealAmount, d.NominalAmount)
    IN  IF efficiency = 0 /\ d.WaterVolume > 0 /\ d.Duration > 0
        THEN calculateEfficiency(d.WaterVolume, nominalVolume(d))
        ELSE efficiency

\* the sum of field over the first n entries of a sequence
RECURSIVE SeqSum(_, _, _)
SeqSum(data, field, n) ==
    IF n = 0 THEN 0 ELSE SeqSum(data, field, n - 1) + data[n][field]

\* calculateSummary gone wrong: total_events counts the buckets
calculateSummaryBuckets(data) ==
    LET positive == {i \in 1..Len(data) : summaryEfficiency(data[i]) > 0}
        effs == [i \in 1..Len(data) |->
                    [e |-> IF i \in positive THEN summaryEfficiency(data[i]) ELSE 0]]
        totalEfficiency == SeqSum(effs, "e", Len(data))
        efficiencyCount == Cardinality(positive)
    IN  [TotalWaterVolume   |-> Round2(SeqSum(data, "WaterVolume", Len(data))),
         TotalDuration      |-> SeqSum(data, "Duration", Len(data)),
         AverageEfficiency  |-> IF efficiencyCount > 0
                                THEN Round4Of(totalEfficiency, efficiencyCount)
                                ELSE 0,
         TotalEvents        |-> Len(data),
         TotalRealAmount    |-> Round2(SeqSum(data, "RealAmount", Len(data))),
         TotalNominalAmount |-> Round2(SeqSum(data, "NominalAmount", Len(data)))]

calculateSummary(data) ==
    LET positive == {i \in 1..Len(data) : summaryEfficiency(data[i]) > 0}
        effs == [i \in 1..Len(data) |->
                    [e |-> IF i \in positive THEN summaryEfficiency(data[i]) ELSE 0]]
        totalEfficiency == SeqSum(effs, "e", Len(data))
        efficiencyCount == Cardinality(positive)
    IN  [TotalWaterVolume   |-> Round2(SeqSum(data, "WaterVolume", Len(data))),
         TotalDuration      |-> SeqSum(data, "Duration", Len(data)),
         AverageEfficiency  |-> IF efficiencyCount > 0
                                THEN Round4Of(totalEfficiency, efficiencyCount)
                                ELSE 0,
         TotalEvents        |-> SeqSum(data, "EventCount", Len(data)),
         TotalRealAmount    |-> Round2(SeqSum(data, "RealAmount", Len(data))),
         TotalNominalAmount |-> Round2(SeqSum(data, "NominalAmount", Len(data)))]

\* calculateChangePercent gone wrong: the change is taken relative to the
\* magnitude of previous
calculateChangePercentAbs(current, previous) ==
    IF previous = 0
    THEN IF current = 0 THEN 0 ELSE 10000
    ELSE RoundQuot(current - previous, Abs(previous), 4)

\* percentage change rounded to 2 decimals; 100.0 from a zero baseline
calculateChangePercent(current, previous) ==
    IF previous = 0
    THEN IF current = 0 THEN 0 ELSE 10000
    ELSE RoundQuot(current - previous, previous, 4)

\* an optional entry (*PeriodMetrics, *YearComparison): <<>> is nil
Nil == <<>>

\* periodMetricsOf gone wrong: the change is taken from the current period
\* to the historical one
periodMetricsOfSwapped(s, startDate, endDate, yearsBack, currentSummary) ==
    [Period |-> [StartDate |-> AddYears(startDate, -yearsBack),
                 EndDate   |-> AddYears(endDate, -yearsBack)],
     TotalWaterVolume  |-> s.TotalWaterVolume,
     TotalEvents       |-> s.TotalEvents,
     AverageEfficiency |-> s.AverageEfficiency,
     VolumeChangePercent |->
         calculateChangePercent(s.TotalWaterVolume, currentSummary.TotalWaterVolume),
     EventsChangePercent |->
         calculateChangePercent(s.TotalEvents, currentSummary.TotalEvents),
     EfficiencyChangePercent |->
         calculateChangePercent(s.AverageEfficiency, currentSummary.AverageEfficiency)]

\* the PeriodMetrics literal: the historical summary s against the current one
periodMetricsOf(s, startDate, endDate, yearsBack, currentSummary) ==
    [Period |-> [StartDate |-> AddYears(startDate, -yearsBack),
                 EndDate   |-> AddYears(endDate, -yearsBack)],
     TotalWaterVolume  |-> s.TotalWaterVolume,
     TotalEvents       |-> s.TotalEvents,
     AverageEfficiency |-> s.AverageEfficiency,
     VolumeChangePercent |->
         calculateChangePercent(currentSummary.TotalWaterVolume, s.TotalWaterVolume),
     EventsChangePercent |->
         calculateChangePercent(currentSummary.TotalEvents, s.TotalEvents),
     EfficiencyChangePercent |->
         calculateChangePercent(currentSummary.AverageEfficiency, s.AverageEfficiency)]

\* the PeriodMetrics built from a historical result set
periodMetrics(data, startDate, endDate, yearsBack, currentSummary) ==
    periodMetricsOf(calculateSummary(data), startDate, endDate, yearsBack,
                    currentSummary)


\* the YearComparison (legacy shape) built from a historical result set
yearComparison(data, startDate, endDate, yearsBack, currentSummary) ==
    LET s == calculateSummary(data)
    IN  [Period |-> [StartDate |-> AddYears(startDate, -yearsBack),
                     EndDate   |-> AddYears(endDate, -yearsBack)],
         TotalWaterVolume  |-> s.TotalWaterVolume,
         TotalDuration     |-> s.TotalDuration,
         AverageEfficiency |-> s.AverageEfficiency,
         TotalEvents       |-> s.TotalEvents,
         ChangePercent |->
             calculateChangePercent(currentSummary.TotalWaterVolume, s.TotalWaterVolume)]

\* sectorMap after the first n buckets: sector id -> running SectorBreakdown
RECURSIVE sectorMap(_, _)
sectorMap(data, n) ==
    IF n = 0 THEN <<>>
    ELSE LET m == sectorMap(data, n - 1)
             d == data[n]
             id == d.IrrigationSectorID
         IN  IF id \in DOMAIN m
             THEN [m EXCEPT ![id] =
                     [@ EXCEPT !.TotalWaterVolume   = @ + d.WaterVolume,
                               !.TotalEvents        = @ + d.EventCount,
                               !.TotalRealAmount    = @ + d.RealAmount,
                               !.TotalNominalAmount = @ + d.NominalAmount]]
             ELSE [k \in DOMAIN m \cup {id} |->
                     IF k = id
                     THEN [SectorID           |-> id,
                           TotalWaterVolume   |-> d.WaterVolume,
                           TotalEvents        |-> d.EventCount,
                           AverageEfficiency  |-> summaryEfficiency(d),
                           TotalRealAmount    |-> d.RealAmount,
                           TotalNominalAmount |-> d.NominalAmount]
                     ELSE m[k]]

\* one sector's entry as the closing loop of calculateSectorBreakdown emits it
sectorEntry(b) ==
    [SectorID           |-> b.SectorID,
     TotalWaterVolume   |-> Round2(b.TotalWaterVolume),
     TotalEvents        |-> b.TotalEvents,
     AverageEfficiency  |-> Round4(IF b.TotalNominalAmount > 0
                                   THEN calculateEfficiency(b.TotalRealAmount,
                                                            b.TotalNominalAmount)
                                   ELSE b.AverageEfficiency),
     TotalRealAmount    |-> Round2(b.TotalRealAmount),
     TotalNominalAmount |-> Round2(b.TotalNominalAmount)]

\* every listing of a set without repetition
RECURSIVE Listings(_)
Listings(S) ==
    IF S = {} THEN {<<>>}
    ELSE UNION {{<<x>> \o t : t \in Listings(S \ {x})} : x \in S}

\* sectorBreakdowns gone wrong: one entry per bucket, sectors not grouped
sectorBreakdownsPerBucket(data) ==
    {[i \in 1..Len(data) |->
        sectorEntry(sectorMap(<<data[i]>>, 1)[data[i].IrrigationSectorID])]}

\* ranging over a Go map visits the keys in an order that differs from run to
\* run: the breakdowns calculateSectorBreakdown may return for a result set
sectorBreakdowns(data) ==
    LET m == sectorMap(data, Len(data))
    IN  {[i \in 1..Len(order) |-> sectorEntry(m[order[i]])] : order \in Listings(DOMAIN m)}

(***************************************************************************)
(* State                                                                   *)
(***************************************************************************)
VARIABLES
    store,             \* the rows of irrigation_data
    pc,                \* where GetIrrigationAnalytics stands
    args,              \* its arguments, aggregation already normalised;
                       \* requested remembers the aggregation as passed
    currentData,       \* the buckets of the current window
    dataPoints,
    summary,
    periodComparison,
    sectorBreakdown,
    yoy,
    fetches,           \* the queries issued by this call, in order
    resp,              \* the returned *AnalyticsResponse: Nil or <<response>>
    calc,              \* the last direct call of a pure function
    metrics,           \* the RequestMetrics aggregate of the middleware
    mu,                \* its RWMutex: the writer holding it, the readers holding it
    requests,          \* each request's position in the logging middleware
    reader,            \* the caller of GetMetrics: position and snapshot
    http,              \* the controller: the request it serves and its response
    err,               \* the returned error: "nil" or a data-source error
    last               \* the previous call that returned with every query
                       \* succeeding: Nil or <<[args, resp]>>

vars == <<store, pc, args, currentData, dataPoints, summary, periodComparison,
          sectorBreakdown, yoy, fetches, resp, err, last, calc,
          metrics, mu, requests, reader, http>>

locals == <<currentData, dataPoints, summary, periodComparison, sectorBreakdown, yoy>>

\* what lies outside the analytics call
others == <<calc, metrics, mu, requests, reader, http>>

\* the analytics call and the store
engine == <<store, pc, args, locals, fetches, resp, err, last>>

\* the logging middleware and its metrics
middleware == <<metrics, mu, requests, reader>>

NoArgs == [farmID |-> 0, sectorID |-> {}, startDate |-> 0, endDate |-> 0,
           aggregation |-> "", requested |-> ""]

NoComparison == [OneYearAgo |-> Nil, TwoYearsAgo |-> Nil]

\* no call is running: nothing of a request is retained
Idle ==
    /\ pc = "idle"
    /\ args = NoArgs
    /\ currentData = <<>>
    /\ dataPoints = NilSlice
    /\ summary = calculateSummary(<<>>)
    /\ periodComparison = NoComparison
    /\ sectorBreakdown = NilSlice
    /\ yoy = NoComparison
    /\ fetches = <<>>
    /\ resp = Nil
    /\ err = "nil"

\* no pure function has been called directly
NoCalc == [op |-> "none"]

\* the requests passing the logging middleware
Requests == 1 .. MaxRequests

\* a map[string]uint64 with no key
EmptyMap == [k \in {} |-> 0]

\* var metrics = &RequestMetrics{RequestsByEndpoint: make(map[string]uint64)}
NoMetrics == [TotalRequests |-> 0, RequestsByEndpoint |-> EmptyMap]

\* a request that has not arrived
NoRequest == [pc |-> "new", method |-> "", path |-> "", loaded |-> 0]

\* nobody is in GetMetrics
NoReader == [pc |-> "idle", snapshot |-> NoMetrics]

\* a query parameter that is absent or empty, read as a date
NoDate == [layout |-> "", date |-> <<0, 0, 0>>, tick |-> 0]

\* the controller serves no request
NoHttp ==
    [pc |-> "idle",
     request |-> [farm_id |-> "", sector_id |-> "", start_date |-> NoDate,
                  end_date |-> NoDate, aggregation |-> <<>>],
     status |-> 0, error |-> "", message |-> "", body |-> Nil, calls |-> <<>>,
     farmExists |-> <<>>]

\* nothing outside the analytics call has happened
Quiet ==
    /\ calc = NoCalc
    /\ metrics = NoMetrics
    /\ mu = [writer |-> 0, readers |-> {}]
    /\ requests = [r \in Requests |-> NoRequest]
    /\ reader = NoReader
    /\ http = NoHttp

Init ==
    /\ store \in Stores
    /\ Idle
    /\ last = Nil
    /\ Quiet

(***************************************************************************)
(* GetIrrigationAnalytics, one step per query                              *)
(***************************************************************************)
\* the aggregation strings a caller may pass
Aggregations == {"daily", "weekly", "monthly", "", "hourly"}

\* normalize gone wrong: only the empty string is defaulted
normalizeEmptyOnly(aggregation) ==
    IF aggregation = "" THEN "daily" ELSE aggregation

\* empty or unrecognised aggregation becomes daily
normalize(aggregation) ==
    IF aggregation \in {"daily", "weekly", "monthly"} THEN aggregation ELSE "daily"

\* what a query returns: "nil" or an error of the data source
Outcomes == {"nil"} \cup DbErrors

\* the same where the caller only tests the error against nil and drops it:
\* one error stands for all
DroppedOutcomes == {"nil", "query timeout"}

\* the record of one query
Fetch(caller, sectorID, startDate, endDate, outcome, data) ==
    [caller |-> caller, farmID |-> args.farmID, sectorID |-> sectorID,
     startDate |-> startDate, endDate |-> endDate,
     aggregation |-> args.aggregation, error |-> outcome,
     rows |-> IF outcome = "nil" THEN Len(data) ELSE 0]

\* the call is entered and the aggregation level validated
Call(farmID, sectorID, startDate, endDate, aggregation) ==
    /\ pc = "idle"
    /\ pc' = "current"
    /\ args' = [farmID |-> farmID, sectorID |-> sectorID, startDate |-> startDate,
                endDate |-> endDate, aggregation |-> normalize(aggregation),
                requested |-> aggregation]
    /\ UNCHANGED <<store, locals, fetches, resp, err, last>>

\* FetchCurrent gone wrong: on an error it still hands back a response built
\* from what it has
FetchCurrentPartial(outcome, data) ==
    /\ pc = "current"
    /\ fetches' = Append(fetches,
                         Fetch("current", args.sectorID, args.startDate, args.endDate, outcome, data))
    /\ IF outcome # "nil"
       THEN /\ resp' = <<[FarmID |-> args.farmID, SectorID |-> args.sectorID,
                          Period |-> [StartDate |-> args.startDate, EndDate |-> args.endDate],
                          Aggregation |-> args.aggregation, Data |-> dataPoints,
                          Summary |-> summary, PeriodComparison |-> periodComparison,
                          SectorBreakdown |-> sectorBreakdown, YearOverYear |-> yoy]>>
            /\ err' = outcome
            /\ pc' = "returned"
            /\ UNCHANGED locals
       ELSE /\ currentData' = data
            /\ dataPoints' = processDataPoints(data)
            /\ summary' = calculateSummary(data)
            /\ pc' = "comparison1"
            /\ UNCHANGED <<periodComparison, sectorBreakdown, yoy, resp, err>>
    /\ UNCHANGED <<others, store, args, last>>

\* fetch the current period; an error ends the call, otherwise the data
\* points and the summary are computed
FetchCurrent(outcome, data) ==
    /\ pc = "current"
    /\ fetches' = Append(fetches,
                         Fetch("current", args.sectorID, args.startDate, args.endDate, outcome, data))
    /\ IF outcome # "nil"
       THEN /\ resp' = Nil
            /\ err' = outcome
            /\ pc' = "returned"
            /\ UNCHANGED locals
       ELSE /\ currentData' = data
            /\ dataPoints' = processDataPoints(data)
            /\ summary' = calculateSummary(data)
            /\ pc' = "comparison1"
            /\ UNCHANGED <<periodComparison, sectorBreakdown, yoy, resp, err>>
    /\ UNCHANGED <<others, store, args, last>>

\* comparisonEntry gone wrong: an empty history is reported as a zero-valued
\* entry instead of being left out
comparisonEntryZeroed(yearsBack, outcome, data) ==
    IF outcome = "nil"
    THEN <<periodMetrics(data, args.startDate, args.endDate, yearsBack, summary)>>
    ELSE Nil

\* the entry calculatePeriodComparison sets for yearsBack years ago: present
\* when the query succeeded with at least one bucket
comparisonEntry(yearsBack, outcome, data) ==
    IF outcome = "nil" /\ Len(data) > 0
    THEN <<periodMetrics(data, args.startDate, args.endDate, yearsBack, summary)>>
    ELSE Nil

\* afterComparison gone wrong: the breakdown is computed for every request
afterComparisonAlways(sectorID) == "breakdown"

\* the sector breakdown is computed only without a sector filter
afterComparison(sectorID) == IF sectorID = {} THEN "breakdown" ELSE "yoy1"

\* ComparisonFetch gone wrong: an error of a historical query is returned to
\* the caller like an error of the current one
ComparisonFetchFatal(yearsBack, outcome, data) ==
    /\ pc = (IF yearsBack = 1 THEN "comparison1" ELSE "comparison2")
    /\ fetches' = Append(fetches,
                         Fetch("periodComparison", args.sectorID,
                               AddYears(args.startDate, -yearsBack),
                               AddYears(args.endDate, -yearsBack), outcome, data))
    /\ IF outcome # "nil"
       THEN /\ resp' = Nil
            /\ err' = outcome
            /\ pc' = "returned"
            /\ UNCHANGED periodComparison
       ELSE /\ LET entry == comparisonEntry(yearsBack, outcome, data)
               IN  periodComparison' = IF yearsBack = 1
                                       THEN [periodComparison EXCEPT !.OneYearAgo = entry]
                                       ELSE [periodComparison EXCEPT !.TwoYearsAgo = entry]
            /\ pc' = IF yearsBack = 1 THEN "comparison2" ELSE afterComparison(args.sectorID)
            /\ UNCHANGED <<resp, err>>
    /\ UNCHANGED <<others, store, args, currentData, dataPoints, summary, sectorBreakdown,
                   yoy, last>>

\* calculatePeriodComparison: the query for yearsBack years ago and its entry
ComparisonFetch(yearsBack, outcome, data) ==
    /\ pc = (IF yearsBack = 1 THEN "comparison1" ELSE "comparison2")
    /\ fetches' = Append(fetches,
                         Fetch("periodComparison", args.sectorID,
                               AddYears(args.startDate, -yearsBack),
                               AddYears(args.endDate, -yearsBack), outcome, data))
    /\ LET entry == comparisonEntry(yearsBack, outcome, data)
       IN  periodComparison' = IF yearsBack = 1
                               THEN [periodComparison EXCEPT !.OneYearAgo = entry]
                               ELSE [periodComparison EXCEPT !.TwoYearsAgo = entry]
    /\ pc' = IF yearsBack = 1 THEN "comparison2" ELSE afterComparison(args.sectorID)
    /\ UNCHANGED <<others, store, args, currentData, dataPoints, summary, sectorBreakdown,
                   yoy, resp, err, last>>

\* calculateSectorBreakdown: the query over all sectors and the fold per sector
BreakdownFetch(outcome, data, breakdown) ==
    /\ pc = "breakdown"
    /\ fetches' = Append(fetches,
                         Fetch("sectorBreakdown", {}, args.startDate, args.endDate, outcome, data))
    /\ sectorBreakdown' = IF outcome # "nil" THEN Slice(<<>>) ELSE Slice(breakdown)
    /\ pc' = "yoy1"
    /\ UNCHANGED <<others, store, args, currentData, dataPoints, summary, periodComparison,
                   yoy, resp, err, last>>

\* the response GetIrrigationAnalytics assembles
Response(yearOverYear) ==
    [FarmID           |-> args.farmID,
     SectorID         |-> args.sectorID,
     Period           |-> [StartDate |-> args.startDate, EndDate |-> args.endDate],
     Aggregation      |-> args.aggregation,
     Data             |-> dataPoints,
     Summary          |-> summary,
     PeriodComparison |-> periodComparison,
     SectorBreakdown  |-> sectorBreakdown,
     YearOverYear     |-> yearOverYear]

\* the legacy entry calculateYearOverYear sets for yearsBack years ago
yearOverYearEntry(yearsBack, outcome, data) ==
    IF outcome = "nil" /\ Len(data) > 0
    THEN <<yearComparison(data, args.startDate, args.endDate, yearsBack, summary)>>
    ELSE Nil

\* calculateYearOverYear: the query for yearsBack years ago and its legacy
\* entry; after the second one the response is returned
YearOverYearFetch(yearsBack, outcome, data) ==
    /\ pc = (IF yearsBack = 1 THEN "yoy1" ELSE "yoy2")
    /\ fetches' = Append(fetches,
                         Fetch("yearOverYear", args.sectorID,
                               AddYears(args.startDate, -yearsBack),
                               AddYears(args.endDate, -yearsBack), outcome, data))
    /\ LET entry == yearOverYearEntry(yearsBack, outcome, data)
       IN  yoy' = IF yearsBack = 1
                  THEN [yoy EXCEPT !.OneYearAgo = entry]
                  ELSE [yoy EXCEPT !.TwoYearsAgo = entry]
    /\ IF yearsBack = 1
       THEN pc' = "yoy2" /\ UNCHANGED <<resp, err>>
       ELSE pc' = "returned" /\ resp' = <<Response(yoy')>> /\ err' = "nil"
    /\ UNCHANGED <<others, store, args, currentData, dataPoints, summary, periodComparison,
                   sectorBreakdown, last>>

\* the caller has the result; nothing of the request is retained
Forget ==
    /\ args' = NoArgs
    /\ currentData' = <<>>
    /\ dataPoints' = NilSlice
    /\ summary' = calculateSummary(<<>>)
    /\ periodComparison' = NoComparison
    /\ sectorBreakdown' = NilSlice
    /\ yoy' = NoComparison
    /\ fetches' = <<>>
    /\ resp' = Nil
    /\ err' = "nil"

Return ==
    /\ pc = "returned"
    /\ pc' = "idle"
    /\ Forget
    /\ UNCHANGED <<others, store, last>>

\* the queries of the running call, as the data source may answer them
CurrentStep ==
    /\ pc = "current"
    /\ \E outcome \in Outcomes :
           \E data \in GetAggregatedData(store, args.farmID, args.sectorID,
                                         args.startDate, args.endDate, args.aggregation) :
               FetchCurrent(outcome, data)

ComparisonStep ==
    \E yearsBack \in {1, 2} :
        /\ pc = (IF yearsBack = 1 THEN "comparison1" ELSE "comparison2")
        /\ \E outcome \in DroppedOutcomes :
               \E data \in GetYearOverYearData(store, args.farmID, args.sectorID,
                                               args.startDate, args.endDate,
                                               args.aggregation, yearsBack) :
                   ComparisonFetch(yearsBack, outcome, data)

BreakdownStep ==
    /\ pc = "breakdown"
    /\ \E outcome \in DroppedOutcomes :
           \E data \in GetAggregatedData(store, args.farmID, {},
                                         args.startDate, args.endDate, args.aggregation) :
               \E breakdown \in sectorBreakdowns(data) :
                   BreakdownFetch(outcome, data, breakdown)

YearOverYearStep ==
    \E yearsBack \in {1, 2} :
        /\ pc = (IF yearsBack = 1 THEN "yoy1" ELSE "yoy2")
        /\ \E outcome \in DroppedOutcomes :
               \E data \in GetYearOverYearData(store, args.farmID, args.sectorID,
                                               args.startDate, args.endDate,
                                               args.aggregation, yearsBack) :
                   YearOverYearFetch(yearsBack, outcome, data)

CallStep ==
    \E farmID \in Farms, sectorID \in SectorFilters, endDate \in {WindowStart, WindowEnd},
       aggregation \in Aggregations :
        /\ Call(farmID, sectorID, WindowStart, endDate, aggregation)
        /\ UNCHANGED others

Next ==
    \/ CallStep
    \/ CurrentStep
    \/ ComparisonStep
    \/ BreakdownStep
    \/ YearOverYearStep
    \/ Return

Spec == Init /\ [][Next]_vars

(***************************************************************************)
(* Two calls compared: the same engine, with the result of a call kept     *)
(* for comparison with the next when all of its queries succeeded          *)
(***************************************************************************)
AllSucceeded == \A i \in 1..Len(fetches) : fetches[i].error = "nil"

ReturnAndKeep ==
    /\ pc = "returned"
    /\ pc' = "idle"
    /\ last' = IF AllSucceeded THEN <<[args |-> args, resp |-> resp]>> ELSE Nil
    /\ Forget
    /\ UNCHANGED <<others, store>>

\* two sectors irrigated on the same day
TwoSectorStores ==
    SUBSET {Event(1, 0, Day1, Recorded), Event(1, 1, Day1, Legacy)}

InitTwice ==
    /\ store \in TwoSectorStores
    /\ Idle
    /\ last = Nil
    /\ Quiet

NextTwice ==
    \/ CallStep
    \/ CurrentStep
    \/ ComparisonStep
    \/ BreakdownStep
    \/ YearOverYearStep
    \/ ReturnAndKeep

SpecTwice == InitTwice /\ [][NextTwice]_vars

(***************************************************************************)
(* AnalyticsController: GET /v1/farms/{farm_id}/irrigation/analytics        *)
(***************************************************************************)
\* the decimal strings among the parameter values
Numerals == ("0" :> 0) @@ ("1" :> 1) @@ ("9" :> 9)

\* strconv.ParseUint(str, 10, 32)
ParseUint(str) ==
    IF str \in DOMAIN Numerals
    THEN [value |-> Numerals[str], err |-> "nil"]
    ELSE [value |-> 0, err |-> "invalid syntax"]

\* the string YYYY-MM-DD
DateOnly(y, m, d) == [layout |-> "2006-01-02", date |-> <<y, m, d>>, tick |-> 0]

\* the string YYYY-MM-DDTHH:MM:SSZ
Rfc3339(y, m, d, tick) == [layout |-> "RFC3339", date |-> <<y, m, d>>, tick |-> tick]

\* a string in none of the layouts
Unparseable == [layout |-> "text", date |-> <<0, 0, 0>>, tick |-> 0]

\* parseISO8601Date: RFC3339 keeps the time of day, YYYY-MM-DD is the start of
\* that day in UTC
parseISO8601Date(dateStr) ==
    IF dateStr.layout = "RFC3339"
    THEN [t |-> At(dateStr.date[1], dateStr.date[2], dateStr.date[3], dateStr.tick),
          err |-> "nil"]
    ELSE IF dateStr.layout = "2006-01-02"
    THEN [t |-> At(dateStr.date[1], dateStr.date[2], dateStr.date[3], 0), err |-> "nil"]
    ELSE [t |-> 0, err |-> "unable to parse ISO 8601 date"]

\* ctx.DefaultQuery(key, defaultValue): <<>> is an absent key
DefaultQuery(param, defaultValue) == IF param = <<>> THEN defaultValue ELSE param[1]

\* validAggregation gone wrong: every aggregation is let through
validAggregationAny(aggregation) == TRUE

\* aggregation is one of daily, weekly, monthly
validAggregation(aggregation) == aggregation \in {"daily", "weekly", "monthly"}

\* validRange gone wrong: the order of the two dates is not looked at
validRangeAny(startDate, endDate) == TRUE

\* !endDate.Before(startDate)
validRange(startDate, endDate) == ~(endDate < startDate)

Rejection(status, error, message) ==
    [status |-> status, error |-> error, message |-> message]

NoRejection == Rejection(0, "", "")

\* the checks of the query parameters, in the order of the handler
validate(req) ==
    LET farmID == ParseUint(req.farm_id)
        sid == ParseUint(req.sector_id)
        startDate == parseISO8601Date(req.start_date)
        endDate == parseISO8601Date(req.end_date)
        aggregation == DefaultQuery(req.aggregation, "daily")
    IN  IF farmID.err # "nil"
        THEN Rejection(400, "Invalid farm_id", "farm_id must be a valid unsigned integer")
        ELSE IF req.sector_id # "" /\ sid.err # "nil"
        THEN Rejection(400, "Invalid sector_id",
                       "sector_id must be a valid unsigned integer")
        ELSE IF req.start_date = NoDate
        THEN Rejection(400, "Missing required parameter", "start_date is required")
        ELSE IF startDate.err # "nil"
        THEN Rejection(400, "Invalid start_date",
                       "start_date must be in ISO 8601 format (RFC3339 or YYYY-MM-DD)")
        ELSE IF req.end_date = NoDate
        THEN Rejection(400, "Missing required parameter", "end_date is required")
        ELSE IF endDate.err # "nil"
        THEN Rejection(400, "Invalid end_date",
                       "end_date must be in ISO 8601 format (RFC3339 or YYYY-MM-DD)")
        ELSE IF ~validRange(startDate.t, endDate.t)
        THEN Rejection(400, "Invalid date range", "end_date must be after start_date")
        ELSE IF ~validAggregation(aggregation)
        THEN Rejection(400, "Invalid aggregation",
                       "aggregation must be one of: daily, weekly, monthly")
        ELSE NoRejection

\* sectorOf gone wrong: sector 0 is taken for "no filter"
sectorOfNonZero(req) ==
    IF req.sector_id = "" \/ ParseUint(req.sector_id).value = 0
    THEN {}
    ELSE {ParseUint(req.sector_id).value}

\* the optional sector filter of a request
sectorOf(req) ==
    IF req.sector_id = "" THEN {} ELSE {ParseUint(req.sector_id).value}

\* the handler has written its response
Responded(req, calls, status, error, message, body) ==
    [pc |-> "responded", request |-> req, status |-> status, error |-> error,
     message |-> message, body |-> body, calls |-> calls,
     farmExists |-> http.farmExists]

\* the handler is entered: the parameters are parsed and checked
Receive(req) ==
    /\ http.pc = "idle"
    /\ pc = "idle"
    /\ LET rejection == validate(req)
       IN  http' = IF rejection.status # 0
                   THEN Responded(req, <<>>, rejection.status, rejection.error,
                                  rejection.message, Nil)
                   ELSE [http EXCEPT !.pc = "farmExists", !.request = req]
    /\ UNCHANGED <<engine, calc, middleware>>

\* irrigationRepository.FarmExists: the count of farms with that id, or the
\* error of the query
FarmExists(farmID, outcome) ==
    IF outcome # "nil"
    THEN [exists |-> FALSE, err |-> outcome]
    ELSE [exists |-> farmID \in Farms, err |-> "nil"]

\* CheckFarm gone wrong: the service is called whether the farm exists or not
CheckFarmUnchecked(outcome) ==
    /\ http.pc = "farmExists"
    /\ LET req == http.request
           farmID == ParseUint(req.farm_id).value
           farmExists == FarmExists(farmID, outcome)
       IN  IF farmExists.err # "nil"
           THEN /\ http' = [Responded(req, <<"FarmExists">>, 500, "Internal server error",
                                      "Failed to verify farm existence", Nil)
                               EXCEPT !.farmExists = <<farmExists>>]
                /\ UNCHANGED engine
           ELSE /\ http' = [http EXCEPT
                               !.pc = "service",
                               !.calls = <<"FarmExists", "GetIrrigationAnalytics">>,
                               !.farmExists = <<farmExists>>]
                /\ Call(farmID, sectorOf(req), parseISO8601Date(req.start_date).t,
                        parseISO8601Date(req.end_date).t,
                        DefaultQuery(req.aggregation, "daily"))
    /\ UNCHANGED <<calc, middleware>>

\* FarmExists answers: an error is a 500, a missing farm a 404, otherwise the
\* service is called
CheckFarm(outcome) ==
    /\ http.pc = "farmExists"
    /\ LET req == http.request
           farmID == ParseUint(req.farm_id).value
           farmExists == FarmExists(farmID, outcome)
       IN  IF farmExists.err # "nil"
           THEN /\ http' = [Responded(req, <<"FarmExists">>, 500, "Internal server error",
                                      "Failed to verify farm existence", Nil)
                               EXCEPT !.farmExists = <<farmExists>>]
                /\ UNCHANGED engine
           ELSE IF ~farmExists.exists
           THEN /\ http' = [Responded(req, <<"FarmExists">>, 404, "Farm not found",
                                      "Farm with ID does not exist", Nil)
                               EXCEPT !.farmExists = <<farmExists>>]
                /\ UNCHANGED engine
           ELSE /\ http' = [http EXCEPT
                               !.pc = "service",
                               !.calls = <<"FarmExists", "GetIrrigationAnalytics">>,
                               !.farmExists = <<farmExists>>]
                /\ Call(farmID, sectorOf(req), parseISO8601Date(req.start_date).t,
                        parseISO8601Date(req.end_date).t,
                        DefaultQuery(req.aggregation, "daily"))
    /\ UNCHANGED <<calc, middleware>>

\* Respond gone wrong: whatever the service returned is written as a 200
RespondAlwaysOk ==
    /\ http.pc = "service"
    /\ pc = "returned"
    /\ http' = Responded(http.request, http.calls, 200, "", "", resp)
    /\ pc' = "idle"
    /\ Forget
    /\ UNCHANGED <<store, last, calc, middleware>>

\* the service has returned: an error is a 500, a response the 200 body
Respond ==
    /\ http.pc = "service"
    /\ pc = "returned"
    /\ http' = IF err # "nil"
               THEN Responded(http.request, http.calls, 500, "Internal server error",
                              "Failed to retrieve analytics data", Nil)
               ELSE Responded(http.request, http.calls, 200, "", "", resp)
    /\ pc' = "idle"
    /\ Forget
    /\ UNCHANGED <<store, last, calc, middleware>>

\* the handler returns; nothing of the request is retained
Done ==
    /\ http.pc = "responded"
    /\ http' = NoHttp
    /\ UNCHANGED <<engine, calc, middleware>>

\* the requests a client may send
HttpRequests ==
    [farm_id : {"1", "9", "abc"},
     sector_id : {"", "0", "1", "x"},
     start_date : {NoDate, Unparseable, DateOnly(2024, 3, 1)},
     end_date : {NoDate, Unparseable, DateOnly(2024, 3, 2), DateOnly(2024, 3, 1),
                 DateOnly(2024, 2, 28), Rfc3339(2024, 3, 3, 0)},
     aggregation : {<<>>, <<"daily">>, <<"weekly">>, <<"monthly">>, <<"hourly">>, <<"">>}]

ReceiveStep == \E req \in HttpRequests : Receive(req)

FarmExistsStep == \E outcome \in DroppedOutcomes : CheckFarm(outcome)

\* events on the first and on the last day requested, and a year before
HttpStores ==
    SUBSET {Event(1, 1, WindowStart, Recorded), Event(1, 0, Day2, Legacy),
            Event(1, 0, YearAgo, Recorded)}

InitHttp ==
    /\ store \in HttpStores
    /\ Idle
    /\ last = Nil
    /\ Quiet

NextHttp ==
    \/ ReceiveStep
    \/ FarmExistsStep
    \/ CurrentStep
    \/ ComparisonStep
    \/ BreakdownStep
    \/ YearOverYearStep
    \/ Respond
    \/ Done

SpecHttp == InitHttp /\ [][NextHttp]_vars

(***************************************************************************)
(* The pure functions of the service, called directly as the unit tests do  *)
(***************************************************************************)
\* small amounts of either sign
SmallAmounts == -2 .. MaxAmount

\* the amounts of TestCalculateEfficiency that fit, counted in 0.000001:
\* 0, 100, 100.123456 and 120
TestedAmounts == {0, 100000000, 100123456, 120000000}

\* the <<realAmount, nominalAmount>> pairs calculateEfficiency is called with
EfficiencyInputs ==
    (SmallAmounts \X SmallAmounts) \cup (TestedAmounts \X TestedAmounts)
        \cup {<<1000, 10000>>}

\* the values of TestCalculateChangePercent, counted in 0.001:
\* -50, 0, 90, 100, 110 and 111.111
TestedValues == {-50000, 0, 90000, 100000, 110000, 111111}

\* the <<current, previous>> pairs calculateChangePercent is called with
ChangePercentInputs ==
    (SmallAmounts \X SmallAmounts) \cup (TestedValues \X TestedValues)

\* an AnalyticsSummary of the given volume, events and average efficiency
SummaryOf(volume, events, efficiency) ==
    [TotalWaterVolume |-> volume, TotalDuration |-> 3600,
     AverageEfficiency |-> efficiency, TotalEvents |-> events,
     TotalRealAmount |-> volume, TotalNominalAmount |-> 3600000]

\* the summaries of the January 2025 example and an empty one
ExampleSummaries ==
    {SummaryOf(4650750, 31, 1291700), SummaryOf(4200000, 28, 1250000),
     SummaryOf(4000000, 25, 1200000), SummaryOf(0, 0, 0)}

CalcEfficiency(realAmount, nominalAmount) ==
    /\ calc' = [op |-> "calculateEfficiency", realAmount |-> realAmount,
                nominalAmount |-> nominalAmount,
                result |-> calculateEfficiency(realAmount, nominalAmount)]
    /\ UNCHANGED <<engine, middleware, http>>

CalcChangePercent(current, previous) ==
    /\ calc' = [op |-> "calculateChangePercent", current |-> current,
                previous |-> previous,
                result |-> calculateChangePercent(current, previous)]
    /\ UNCHANGED <<engine, middleware, http>>

\* the PeriodMetrics literal of calculatePeriodComparison on given summaries
CalcPeriodMetrics(currentSummary, s, yearsBack) ==
    /\ calc' = [op |-> "periodMetrics", currentSummary |-> currentSummary,
                summary |-> s, yearsBack |-> yearsBack,
                result |-> periodMetricsOf(s, At(2025, 1, 1, 0), At(2025, 1, 31, 0),
                                           yearsBack, currentSummary)]
    /\ UNCHANGED <<engine, middleware, http>>

\* the instants of 28 February, 29 February and 1 March 2024 and of
\* 28 February and 1 March 2025
WindowBounds ==
    {At(d[1], d[2], d[3], tick) :
        d \in {<<2024, 2, 28>>, <<2024, 2, 29>>, <<2024, 3, 1>>, <<2025, 2, 28>>, <<2025, 3, 1>>},
        tick \in 0..(TicksPerDay - 1)}

\* the windows a caller may pass: start <= end
WindowInputs ==
    {w \in WindowBounds \X WindowBounds : w[1] <= w[2]}

\* the date range GetYearOverYearData computes for a window
CalcHistoricalWindow(startDate, endDate, yearsBack) ==
    /\ calc' = [op |-> "historicalWindow", startDate |-> startDate, endDate |-> endDate,
                yearsBack |-> yearsBack,
                result |-> historicalWindow(startDate, endDate, yearsBack)]
    /\ UNCHANGED <<engine, middleware, http>>

EfficiencyStep ==
    \E in \in EfficiencyInputs : CalcEfficiency(in[1], in[2])

ChangePercentStep ==
    \E in \in ChangePercentInputs : CalcChangePercent(in[1], in[2])

PeriodMetricsStep ==
    \E currentSummary \in ExampleSummaries, s \in ExampleSummaries, yearsBack \in {1, 2} :
        CalcPeriodMetrics(currentSummary, s, yearsBack)

InitPure ==
    /\ store = {}
    /\ Idle
    /\ last = Nil
    /\ Quiet

HistoricalWindowStep ==
    \E w \in WindowInputs, yearsBack \in {1, 2} :
        CalcHistoricalWindow(w[1], w[2], yearsBack)

NextPure ==
    \/ EfficiencyStep
    \/ ChangePercentStep
    \/ PeriodMetricsStep
    \/ HistoricalWindowStep

SpecPure == InitPure /\ [][NextPure]_vars

(***************************************************************************)
(* StructuredLoggingMiddleware and GetMetrics                               *)
(***************************************************************************)
Methods == {"GET", "POST"}

Paths == {"/v1/farms/1/irrigation/analytics", "/metrics"}

\* endpoint := method + " " + path
endpointOf(method, path) == method \o " " \o path

\* m[k], zero for a missing key
MapGet(m, k) == IF k \in DOMAIN m THEN m[k] ELSE 0

\* m[k] = v
MapPut(m, k, v) == [x \in DOMAIN m \cup {k} |-> IF x = k THEN v ELSE m[x]]

copyMap(src) == [k \in DOMAIN src |-> src[k]]

\* the middleware is entered: method and path are read, the start is logged
\* and c.Next() runs the handlers
Arrive(r, method, path) ==
    /\ requests[r].pc = "new"
    /\ requests' = [requests EXCEPT ![r] = [pc |-> "next", method |-> method,
                                            path |-> path, loaded |-> 0]]
    /\ UNCHANGED <<engine, calc, http, metrics, mu, reader>>

\* c.Next() returns
HandlersReturn(r) ==
    /\ requests[r].pc = "next"
    /\ requests' = [requests EXCEPT ![r].pc = "update"]
    /\ UNCHANGED <<engine, calc, http, metrics, mu, reader>>

\* Lock gone wrong: the mutex is taken without waiting for its holders
LockUnguarded(r) ==
    /\ requests[r].pc = "update"
    /\ mu' = [mu EXCEPT !.writer = r]
    /\ requests' = [requests EXCEPT ![r].pc = "locked"]
    /\ UNCHANGED <<engine, calc, http, metrics, reader>>

\* metrics.mu.Lock(): waits until no writer and no reader holds the mutex
Lock(r) ==
    /\ requests[r].pc = "update"
    /\ mu.writer = 0
    /\ mu.readers = {}
    /\ mu' = [mu EXCEPT !.writer = r]
    /\ requests' = [requests EXCEPT ![r].pc = "locked"]
    /\ UNCHANGED <<engine, calc, http, metrics, reader>>

\* metrics.TotalRequests++, the read
LoadTotal(r) ==
    /\ requests[r].pc = "locked"
    /\ requests' = [requests EXCEPT ![r].pc = "totalLoaded",
                                    ![r].loaded = metrics.TotalRequests]
    /\ UNCHANGED <<engine, calc, http, metrics, mu, reader>>

\* metrics.TotalRequests++, the write
StoreTotal(r) ==
    /\ requests[r].pc = "totalLoaded"
    /\ metrics' = [metrics EXCEPT !.TotalRequests = requests[r].loaded + 1]
    /\ requests' = [requests EXCEPT ![r].pc = "totalStored", ![r].loaded = 0]
    /\ UNCHANGED <<engine, calc, http, mu, reader>>

\* metrics.RequestsByEndpoint[endpoint]++, the read
LoadEndpoint(r) ==
    /\ requests[r].pc = "totalStored"
    /\ LET endpoint == endpointOf(requests[r].method, requests[r].path)
       IN  requests' = [requests EXCEPT
                           ![r].pc = "endpointLoaded",
                           ![r].loaded = MapGet(metrics.RequestsByEndpoint, endpoint)]
    /\ UNCHANGED <<engine, calc, http, metrics, mu, reader>>

\* metrics.RequestsByEndpoint[endpoint]++, the write
StoreEndpoint(r) ==
    /\ requests[r].pc = "endpointLoaded"
    /\ LET endpoint == endpointOf(requests[r].method, requests[r].path)
       IN  metrics' = [metrics EXCEPT
                          !.RequestsByEndpoint =
                              MapPut(metrics.RequestsByEndpoint, endpoint,
                                     requests[r].loaded + 1)]
    /\ requests' = [requests EXCEPT ![r].pc = "endpointStored", ![r].loaded = 0]
    /\ UNCHANGED <<engine, calc, http, mu, reader>>

\* metrics.mu.Unlock(); the completion is logged
Unlock(r) ==
    /\ requests[r].pc = "endpointStored"
    /\ mu' = [mu EXCEPT !.writer = IF mu.writer = r THEN 0 ELSE mu.writer]
    /\ requests' = [requests EXCEPT ![r].pc = "completed"]
    /\ UNCHANGED <<engine, calc, http, metrics, reader>>

\* RLock gone wrong: the read lock is taken while a writer holds the mutex
RLockUnguarded ==
    /\ reader.pc = "idle"
    /\ mu' = [mu EXCEPT !.readers = {"GetMetrics"}]
    /\ reader' = [pc |-> "rlocked", snapshot |-> NoMetrics]
    /\ UNCHANGED <<engine, calc, http, metrics, requests>>

\* GetMetrics: metrics.mu.RLock() waits until no writer holds the mutex
RLock ==
    /\ reader.pc = "idle"
    /\ mu.writer = 0
    /\ mu' = [mu EXCEPT !.readers = {"GetMetrics"}]
    /\ reader' = [pc |-> "rlocked", snapshot |-> NoMetrics]
    /\ UNCHANGED <<engine, calc, http, metrics, requests>>

\* TotalRequests: metrics.TotalRequests
ReadTotal ==
    /\ reader.pc = "rlocked"
    /\ reader' = [reader EXCEPT !.pc = "totalRead",
                                !.snapshot.TotalRequests = metrics.TotalRequests]
    /\ UNCHANGED <<engine, calc, http, metrics, mu, requests>>

\* RequestsByEndpoint: copyMap(metrics.RequestsByEndpoint)
ReadEndpoints ==
    /\ reader.pc = "totalRead"
    /\ reader' = [reader EXCEPT
                     !.pc = "copied",
                     !.snapshot.RequestsByEndpoint = copyMap(metrics.RequestsByEndpoint)]
    /\ UNCHANGED <<engine, calc, http, metrics, mu, requests>>

\* defer metrics.mu.RUnlock(); the snapshot is returned
RUnlock ==
    /\ reader.pc = "copied"
    /\ mu' = [mu EXCEPT !.readers = {}]
    /\ reader' = [reader EXCEPT !.pc = "idle"]
    /\ UNCHANGED <<engine, calc, http, metrics, requests>>

ArriveStep == \E r \in Requests, method \in Methods, path \in Paths : Arrive(r, method, path)

HandlersStep == \E r \in Requests : HandlersReturn(r)

LockStep == \E r \in Requests : Lock(r)

CountStep ==
    \E r \in Requests :
        \/ LoadTotal(r)
        \/ StoreTotal(r)
        \/ LoadEndpoint(r)
        \/ StoreEndpoint(r)

UnlockStep == \E r \in Requests : Unlock(r)

GetMetricsStep ==
    \/ RLock
    \/ ReadTotal
    \/ ReadEndpoints
    \/ RUnlock

InitMetrics ==
    /\ store = {}
    /\ Idle
    /\ last = Nil
    /\ Quiet

NextMetrics ==
    \/ ArriveStep
    \/ HandlersStep
    \/ LockStep
    \/ CountStep
    \/ UnlockStep
    \/ GetMetricsStep

SpecMetrics == InitMetrics /\ [][NextMetrics]_vars

(***************************************************************************)
(* Properties                                                              *)
(***************************************************************************)
Returned == pc = "returned"

\* the call returned a response
Succeeded == Returned /\ resp # Nil

\* two queries over the same scope and window
SameQuery(f, g) ==
    /\ f.farmID = g.farmID
    /\ f.sectorID = g.sectorID
    /\ f.startDate = g.startDate
    /\ f.endDate = g.endDate

\* the query is over the window of the call shifted back n years
ShiftedBy(f, n) ==
    /\ f.startDate = AddYears(args.startDate, -n)
    /\ f.endDate = AddYears(args.endDate, -n)

\* the queries a part of the engine issued for n years back
FetchesOf(caller, n) ==
    {i \in 1..Len(fetches) : fetches[i].caller = caller /\ ShiftedBy(fetches[i], n)}

ComparisonEntry(r, n) ==
    IF n = 1 THEN r.PeriodComparison.OneYearAgo ELSE r.PeriodComparison.TwoYearsAgo

LegacyEntry(r, n) ==
    IF n = 1 THEN r.YearOverYear.OneYearAgo ELSE r.YearOverYear.TwoYearsAgo

\* C1: when the current-window fetch returns an error, the call returns that
\* error with a nil response and issues no further query; a response never
\* comes together with an error.
C1_CurrentFetchErrorIsFatal ==
    /\ (Len(fetches) >= 1 /\ fetches[1].error # "nil") =>
          /\ Returned
          /\ resp = Nil
          /\ err = fetches[1].error
          /\ Len(fetches) = 1
    /\ (err # "nil" => resp = Nil)

C1_Witness ==
    /\ Returned
    /\ err = "connection refused"
    /\ resp = Nil
    /\ args.sectorID = {1}
    /\ MatchingRows(store, args.farmID, args.sectorID, args.startDate, args.endDate) # {}

\* C2: when the current-window fetch succeeds the call returns a nil error and
\* a response whose data and summary are those computed from the current
\* buckets, whatever the other fetches do; the entry of a failed fetch is left
\* out and the entry of a fetch that succeeded with buckets is present.
C2_OtherFailuresAreNotFatal ==
    (Returned /\ fetches[1].error = "nil") =>
        /\ err = "nil"
        /\ resp # Nil
        /\ currentData \in GetAggregatedData(store, args.farmID, args.sectorID,
                                             args.startDate, args.endDate, args.aggregation)
        /\ resp[1].Data = processDataPoints(currentData)
        /\ resp[1].Summary = calculateSummary(currentData)
        /\ \A n \in {1, 2} :
              /\ \A i \in FetchesOf("periodComparison", n) :
                    /\ fetches[i].error # "nil" => ComparisonEntry(resp[1], n) = Nil
                    /\ fetches[i].rows > 0 => ComparisonEntry(resp[1], n) # Nil
              /\ \A i \in FetchesOf("yearOverYear", n) :
                    /\ fetches[i].error # "nil" => LegacyEntry(resp[1], n) = Nil
                    /\ fetches[i].rows > 0 => LegacyEntry(resp[1], n) # Nil
        /\ \A i \in FetchesOf("sectorBreakdown", 0) :
              /\ fetches[i].error # "nil" => resp[1].SectorBreakdown.items = <<>>
              /\ fetches[i].rows > 0 => resp[1].SectorBreakdown.items # <<>>

C2_Witness ==
    /\ Succeeded
    /\ resp[1].Data.items # <<>>
    /\ \E i \in FetchesOf("periodComparison", 1) : fetches[i].error # "nil"
    /\ resp[1].PeriodComparison.OneYearAgo = Nil
    /\ resp[1].PeriodComparison.TwoYearsAgo # Nil

\* C3: omission law.  In a response the period_comparison entry for N years
\* ago is present exactly when the fetch of the window shifted back N years
\* returned at least one bucket, whatever the totals of those buckets are.
C3_OmissionLaw ==
    Succeeded =>
        \A n \in {1, 2} :
            /\ FetchesOf("periodComparison", n) # {}
            /\ \A i \in FetchesOf("periodComparison", n) :
                  (ComparisonEntry(resp[1], n) # Nil) <=> (fetches[i].rows > 0)

\* a year ago there was one event that delivered nothing: the entry is
\* present with zero volume; two years ago there was none: the entry is absent
C3_Witness ==
    /\ Succeeded
    /\ resp[1].PeriodComparison.OneYearAgo # Nil
    /\ resp[1].PeriodComparison.OneYearAgo[1].TotalWaterVolume = 0
    /\ resp[1].PeriodComparison.OneYearAgo[1].AverageEfficiency = 0
    /\ resp[1].PeriodComparison.TwoYearsAgo = Nil
    /\ \A i \in FetchesOf("periodComparison", 2) : fetches[i].error = "nil"

\* C4: idempotence.  Two calls with identical arguments over the same stored
\* events, every query succeeding, return identical responses, the order of
\* data and of sector_breakdown included.
C4_Idempotent ==
    (Returned /\ AllSucceeded /\ last # Nil /\ last[1].args = args) =>
        resp = last[1].resp

\* C5: a call that returns a response made exactly four queries without a
\* sector filter and exactly three with one, and no scope and window was
\* queried twice.
C5_FourFetches ==
    Succeeded =>
        /\ Len(fetches) = (IF args.sectorID = {} THEN 4 ELSE 3)
        /\ \A i, j \in 1..Len(fetches) : i < j => ~SameQuery(fetches[i], fetches[j])

\* C6: no retry.  After a query for a scope and window returned an error, the
\* call issues no further query for that scope and window.
C6_NoRetry ==
    \A i, j \in 1..Len(fetches) :
        (i < j /\ fetches[i].error # "nil") => ~SameQuery(fetches[i], fetches[j])

\* the mean, rounded to 4 decimals, of the positive values of a sequence of
\* efficiencies; 0.0 when none is positive
RECURSIVE PositiveSum(_, _)
PositiveSum(effs, n) ==
    IF n = 0 THEN 0
    ELSE PositiveSum(effs, n - 1) + (IF effs[n] > 0 THEN effs[n] ELSE 0)

MeanOfPositive(effs) ==
    LET count == Cardinality({i \in 1..Len(effs) : effs[i] > 0})
    IN  IF count = 0 THEN 0 ELSE Round4Of(PositiveSum(effs, Len(effs)), count)

\* C7: average-efficiency exclusion law.  summary.average_efficiency is the
\* mean of the efficiencies of exactly those buckets whose efficiency reported
\* in data is positive; a bucket reported with 0.0 adds nothing.
C7_AverageOfReportedEfficiencies ==
    Succeeded =>
        resp[1].Summary.AverageEfficiency =
            MeanOfPositive([i \in 1..Len(resp[1].Data.items) |-> resp[1].Data.items[i].Efficiency])

\* the efficiency of a bucket when the duration fallback applies only to
\* real = 0, nominal = 0, volume # 0, duration # 0
fallbackLaw(b) ==
    IF b.RealAmount = 0 /\ b.NominalAmount = 0 /\ b.WaterVolume # 0 /\ b.Duration # 0
    THEN calculateEfficiency(b.WaterVolume, b.Duration * 1000)
    ELSE calculateEfficiency(b.RealAmount, b.NominalAmount)

\* C8: the duration fallback is applied to a bucket only when real = 0 and
\* nominal = 0 with non-zero volume and duration, under that one condition
\* both in the data points and in the summary fold; a bucket with real = 0 and
\* nominal # 0 counts with efficiency 0.0 in both.
C8_OneFallbackCondition ==
    Succeeded =>
        /\ \A i \in 1..Len(currentData) :
              resp[1].Data.items[i].Efficiency = fallbackLaw(currentData[i])
        /\ resp[1].Summary.AverageEfficiency =
              MeanOfPositive([i \in 1..Len(currentData) |-> fallbackLaw(currentData[i])])

\* C9: every sector_breakdown entry carries average_efficiency =
\* efficiency(sum of real, sum of nominal) over the sector's events of the
\* window, 0.0 when the summed nominal is 0.
C9_SectorEfficiencyFromTotals ==
    (Succeeded /\ \A i \in FetchesOf("sectorBreakdown", 0) : fetches[i].error = "nil") =>
        \A k \in 1..Len(resp[1].SectorBreakdown.items) :
            LET e == resp[1].SectorBreakdown.items[k]
                rows == MatchingRows(store, args.farmID, {e.SectorID},
                                     args.startDate, args.endDate)
            IN  e.AverageEfficiency =
                    calculateEfficiency(SumOf(rows, "RealAmount"), SumOf(rows, "NominalAmount"))

\* C10: the sector-wide query is issued only by calls without a sector filter
\* and always without a filter; a response to a call with a sector filter has
\* a nil sector_breakdown, a response to a call without one rests on exactly
\* one sector-wide query over the window of the call.
C10_BreakdownOnlyUnscoped ==
    /\ \A i \in 1..Len(fetches) :
          fetches[i].caller = "sectorBreakdown" =>
              /\ args.sectorID = {}
              /\ fetches[i].sectorID = {}
              /\ fetches[i].farmID = args.farmID
              /\ fetches[i].startDate = args.startDate
              /\ fetches[i].endDate = args.endDate
    /\ Succeeded =>
          /\ resp[1].SectorBreakdown.isNil <=> (args.sectorID # {})
          /\ args.sectorID # {} => resp[1].SectorBreakdown = NilSlice
          /\ Cardinality({i \in 1..Len(fetches) : fetches[i].caller = "sectorBreakdown"})
                = (IF args.sectorID = {} THEN 1 ELSE 0)

C10_Witness ==
    /\ Succeeded
    /\ args.sectorID = {1}
    /\ resp[1].Data.items # <<>>
    /\ resp[1].SectorBreakdown = NilSlice
    /\ \E e \in store : e.IrrigationSectorID = 0 /\ e.StartTime = Day1 /\ e.FarmID = 1

\* C11: granularity normalization.  An empty or unrecognised aggregation is
\* replaced by daily and the call is not rejected for it; daily, weekly and
\* monthly pass unchanged; every query of the call and the aggregation field
\* of the response carry the normalized value.
C11_AggregationNormalized ==
    LET expected == IF args.requested = "weekly" THEN "weekly"
                    ELSE IF args.requested = "monthly" THEN "monthly"
                    ELSE "daily"
    IN  pc # "idle" =>
            /\ args.aggregation = expected
            /\ \A i \in 1..Len(fetches) : fetches[i].aggregation = expected
            /\ Succeeded => resp[1].Aggregation = expected
            /\ (Returned /\ fetches[1].error = "nil") => (err = "nil" /\ resp # Nil)

C11_Witness ==
    /\ Succeeded
    /\ args.requested = "hourly"
    /\ resp[1].Aggregation = "daily"
    /\ Len(resp[1].Data.items) = 2
    /\ Len(fetches) = 6

\* r is n / d rounded to the nearest integer, halves away from zero
NearestTo(r, n, d) ==
    LET diff == Abs(r * d - n)
    IN  \/ 2 * diff < Abs(d)
        \/ 2 * diff = Abs(d) /\ Abs(r * d) > Abs(n)

\* C12: calculateChangePercent(current, previous) is 0.0 when both are 0,
\* 100.0 when only previous is 0, and otherwise (current - previous) /
\* previous * 100 rounded to 2 decimals, with no special case for a negative
\* previous: (110, 100) -> 10.0, (90, 100) -> -10.0, (0, 100) -> -100.0,
\* (111.111, 100) -> 11.11, (100, -50) -> -300.0.
C12_ChangePercentLaw ==
    calc.op = "calculateChangePercent" =>
        LET c == calc.current
            p == calc.previous
            r == calc.result
        IN  /\ (p = 0 /\ c = 0) => r = 0
            /\ (p = 0 /\ c # 0) => r = 10000
            /\ p # 0 => NearestTo(r, (c - p) * 10000, p)
            /\ (c = 110000 /\ p = 100000) => r = 1000
            /\ (c = 90000 /\ p = 100000) => r = -1000
            /\ (c = 0 /\ p = 100000) => r = -10000
            /\ (c = 111111 /\ p = 100000) => r = 1111
            /\ (c = 100000 /\ p = -50000) => r = -30000

C12_Witness ==
    /\ calc.op = "calculateChangePercent"
    /\ calc.current = 100000
    /\ calc.previous = -50000
    /\ calc.result = -30000

\* C13: calculateEfficiency(real, nominal) is 0.0 for every real when nominal
\* is 0, and otherwise real / nominal rounded to 4 decimals:
\* (100.123456, 100) -> 1.0012, (0, 100) -> 0.0, (120, 100) -> 1.2.
C13_EfficiencyLaw ==
    calc.op = "calculateEfficiency" =>
        LET real == calc.realAmount
            nominal == calc.nominalAmount
            r == calc.result
        IN  /\ nominal = 0 => r = 0
            /\ (nominal # 0 /\ Abs(real) <= MaxAmount) =>
                   /\ r % 100 = 0
                   /\ NearestTo(r \div 100, real * 10000, nominal)
            /\ (real = 100123456 /\ nominal = 100000000) => r = 1001200
            /\ (real = 0 /\ nominal = 100000000) => r = 0
            /\ (real = 120000000 /\ nominal = 100000000) => r = 1200000

C13_Witness ==
    /\ calc.op = "calculateEfficiency"
    /\ calc.realAmount = 100123456
    /\ calc.nominalAmount = 100000000
    /\ calc.result = 1001200

\* C18: the January 2025 example.  A current window of volume 4650.75, 31
\* events and average efficiency 1.2917 against a window one year back of
\* 4200.0, 28 events and 1.25 reports the changes 10.73, 10.71 and 3.34
\* percent; against a window two years back of 4000.0, 25 events and 1.20 it
\* reports 16.27, 24.0 and 7.64 percent.
C18_JanuaryExample ==
    ( /\ calc.op = "periodMetrics"
      /\ calc.currentSummary.TotalWaterVolume = 4650750
      /\ calc.currentSummary.TotalEvents = 31
      /\ calc.currentSummary.AverageEfficiency = 1291700 ) =>
        LET s == calc.summary
            r == calc.result
        IN  /\ ( /\ s.TotalWaterVolume = 4200000
                 /\ s.TotalEvents = 28
                 /\ s.AverageEfficiency = 1250000 ) =>
                    /\ r.VolumeChangePercent = 1073
                    /\ r.EventsChangePercent = 1071
                    /\ r.EfficiencyChangePercent = 334
            /\ ( /\ s.TotalWaterVolume = 4000000
                 /\ s.TotalEvents = 25
                 /\ s.AverageEfficiency = 1200000 ) =>
                    /\ r.VolumeChangePercent = 1627
                    /\ r.EventsChangePercent = 2400
                    /\ r.EfficiencyChangePercent = 764

C18_Witness ==
    /\ calc.op = "periodMetrics"
    /\ calc.yearsBack = 2
    /\ calc.currentSummary.TotalWaterVolume = 4650750
    /\ calc.summary.TotalWaterVolume = 4000000
    /\ calc.result.EfficiencyChangePercent = 764
    /\ calc.result.Period.StartDate = At(2023, 1, 1, 0)

\* the current window was fetched and the query succeeded
CurrentFetched == pc # "idle" /\ Len(fetches) >= 1 /\ fetches[1].error = "nil"

\* the stored events of the request's farm (and sector, when one is given)
InScope == { e \in store : /\ e.FarmID = args.farmID
                           /\ \A s \in args.sectorID : e.IrrigationSectorID = s }

\* C14: bucket completeness.  For every farm, optional sector, window
\* [start, end) and granularity, the event counts of the buckets returned for
\* the current window add up to the number of stored events of that scope with
\* start <= start_time < end: an event starting exactly at end is not counted,
\* one starting exactly at start is; summary.total_events is that same number.
C14_BucketCompleteness ==
    CurrentFetched =>
        LET inside == {e \in InScope : e.StartTime > args.startDate
                                       /\ e.StartTime < args.endDate}
            atStart == {e \in InScope : e.StartTime = args.startDate
                                        /\ args.startDate < args.endDate}
            stored == Cardinality(inside) + Cardinality(atStart)
        IN  /\ SeqSum(currentData, "EventCount", Len(currentData)) = stored
            /\ fetches[1].rows = Len(currentData)
            /\ summary.TotalEvents = stored
            /\ \A i \in 1..Len(currentData) : currentData[i].EventCount >= 1

C14_Witness ==
    /\ CurrentFetched
    /\ \E e \in InScope : e.StartTime = args.startDate
    /\ \E e \in InScope : e.StartTime = args.endDate
    /\ args.startDate < args.endDate
    /\ summary.TotalEvents = 1

\* C15: in every successful response and for each N in {1, 2}, whatever the
\* data source does (queries failing independently included), the legacy
\* year_over_year entry for N is present exactly when the period_comparison
\* entry for N is, and when both are present they carry the same period
\* bounds, total_water_volume, total_events and average_efficiency, with
\* year_over_year.change_percent equal to volume_change_percent.
C15_LegacyAgreesWithComparison ==
    Succeeded =>
        \A n \in {1, 2} :
            LET c == ComparisonEntry(resp[1], n)
                l == LegacyEntry(resp[1], n)
            IN  /\ (l # Nil) <=> (c # Nil)
                /\ (l # Nil /\ c # Nil) =>
                      /\ l[1].Period = c[1].Period
                      /\ l[1].TotalWaterVolume = c[1].TotalWaterVolume
                      /\ l[1].TotalEvents = c[1].TotalEvents
                      /\ l[1].AverageEfficiency = c[1].AverageEfficiency
                      /\ l[1].ChangePercent = c[1].VolumeChangePercent

\* shifted has the month, the day and the time of day of t, n years earlier,
\* unless t falls on a 29 February
YearsBefore(shifted, t, n) ==
    LET c == CivilFromDays(DayOf(t))
    IN  (c[2] # 2 \/ c[3] # 29) =>
            /\ CivilFromDays(DayOf(shifted)) = <<c[1] - n, c[2], c[3]>>
            /\ TickOf(shifted) = TickOf(t)

\* C16: for each N in {1, 2} the historical window queried is [start shifted
\* back N calendar years, end shifted back N calendar years), the shift keeping
\* month, day and time of day of every date other than 29 February; the period
\* bounds reported in the comparison entry are the bounds of the window queried.
C16_ShiftedWindow ==
    \A n \in {1, 2} :
        (CurrentFetched /\ Len(fetches) >= n + 1) =>
            LET f == fetches[n + 1]
            IN  /\ f.caller = "periodComparison"
                /\ f.farmID = args.farmID
                /\ f.sectorID = args.sectorID
                /\ YearsBefore(f.startDate, args.startDate, n)
                /\ YearsBefore(f.endDate, args.endDate, n)
                /\ (Succeeded /\ ComparisonEntry(resp[1], n) # Nil) =>
                      /\ ComparisonEntry(resp[1], n)[1].Period.StartDate = f.startDate
                      /\ ComparisonEntry(resp[1], n)[1].Period.EndDate = f.endDate

C16_Witness ==
    /\ Succeeded
    /\ args.startDate = At(2024, 3, 1, 0)
    /\ args.endDate = At(2024, 3, 3, 0)
    /\ resp[1].PeriodComparison.OneYearAgo # Nil
    /\ resp[1].PeriodComparison.OneYearAgo[1].Period =
           [StartDate |-> At(2023, 3, 1, 0), EndDate |-> At(2023, 3, 3, 0)]
    /\ resp[1].PeriodComparison.TwoYearsAgo # Nil
    /\ resp[1].PeriodComparison.TwoYearsAgo[1].Period =
           [StartDate |-> At(2022, 3, 1, 0), EndDate |-> At(2022, 3, 3, 0)]

\* the requests inside the locked section of the middleware
Updating ==
    {r \in Requests : requests[r].pc \in {"locked", "totalLoaded", "totalStored",
                                          "endpointLoaded", "endpointStored"}}

\* the requests that have completed the update of the metrics
Completed == {r \in Requests : requests[r].pc = "completed"}

\* C17: the metrics aggregate is updated and read only while holding its
\* lock, and under any interleaving no increment is lost: once N requests have
\* completed the logging middleware, TotalRequests is N and
\* RequestsByEndpoint[key] is the number of completed requests whose method
\* and path form that key.
C17_NoLostIncrement ==
    /\ \A r \in Updating : mu.writer = r /\ mu.readers = {}
    /\ reader.pc # "idle" => (mu.writer = 0 /\ mu.readers # {})
    /\ Updating = {} =>
          /\ metrics.TotalRequests = Cardinality(Completed)
          /\ \A method \in Methods, path \in Paths :
                MapGet(metrics.RequestsByEndpoint, endpointOf(method, path)) =
                    Cardinality({r \in Completed : /\ requests[r].method = method
                                                   /\ requests[r].path = path})
          /\ \A key \in DOMAIN metrics.RequestsByEndpoint :
                \E r \in Completed : key = endpointOf(requests[r].method, requests[r].path)

C17_Witness ==
    /\ Completed = Requests
    /\ metrics.TotalRequests = MaxRequests
    /\ MapGet(metrics.RequestsByEndpoint, "GET /metrics") = 2
    /\ MapGet(metrics.RequestsByEndpoint, "POST /metrics") = 1

\* the controller has answered 200 with a response body
Answered == http.pc = "responded" /\ http.status = 200 /\ http.body # Nil

\* the last instant of the calendar day y-m-d (23:59:59)
EndOfDay(date) == At(date[1], date[2], date[3], TicksPerDay - 1)

\* C19: for a request whose end_date is date-only (YYYY-MM-DD) the engine is
\* handed an end instant that covers the whole of that day (the end_date of
\* the response is 23:59:59 of it), so that events starting during the final
\* day are included.
C19_DateOnlyEndCoversDay ==
    (Answered /\ http.request.end_date.layout = "2006-01-02") =>
        LET body == http.body[1]
            endOfDay == EndOfDay(http.request.end_date.date)
            during == { e \in store :
                          /\ e.FarmID = body.FarmID
                          /\ \A s \in body.SectorID : e.IrrigationSectorID = s
                          /\ e.StartTime >= body.Period.StartDate
                          /\ e.StartTime < endOfDay }
        IN  /\ body.Period.EndDate = endOfDay
            /\ body.Summary.TotalEvents = Cardinality(during)

\* C20: the controller rejects every aggregation value other than daily,
\* weekly and monthly with status 400 and calls neither FarmExists nor
\* GetIrrigationAnalytics; an absent aggregation parameter is treated as
\* daily and accepted.
C20_InvalidAggregationRejected ==
    http.pc # "idle" =>
        LET aggregation == http.request.aggregation
        IN  /\ (aggregation # <<>> /\ aggregation[1] \notin {"daily", "weekly", "monthly"}) =>
                  /\ http.pc = "responded"
                  /\ http.status = 400
                  /\ http.calls = <<>>
                  /\ pc = "idle"
                  /\ fetches = <<>>
            /\ aggregation = <<>> =>
                  /\ http.error # "Invalid aggregation"
                  /\ http.pc = "service" => args.requested = "daily"
                  /\ Answered => http.body[1].Aggregation = "daily"

C20_Witness ==
    /\ http.pc = "responded"
    /\ http.request.aggregation = <<"hourly">>
    /\ http.request.farm_id = "1"
    /\ http.request.end_date = DateOnly(2024, 3, 2)
    /\ http.status = 400
    /\ http.error = "Invalid aggregation"
    /\ http.calls = <<>>

\* both dates of the request served are in a layout the handler parses
DatesParse ==
    /\ http.request.start_date.layout \in {"RFC3339", "2006-01-02"}
    /\ http.request.end_date.layout \in {"RFC3339", "2006-01-02"}

\* the instant a date parameter stands for: midnight for a date-only string
InstantOf(dateStr) ==
    (DaysFromCivil(dateStr.date[1], dateStr.date[2], dateStr.date[3])) * TicksPerDay
        + (IF dateStr.layout = "RFC3339" THEN dateStr.tick ELSE 0)

\* C21: the controller answers 400 for every request whose parsed end_date is
\* strictly before its parsed start_date and never computes analytics for it;
\* end_date equal to or after start_date passes the range check, so that the
\* engine is only ever invoked with end >= start.
C21_DateRangeChecked ==
    /\ (http.pc # "idle" /\ DatesParse) =>
          LET startDate == InstantOf(http.request.start_date)
              endDate == InstantOf(http.request.end_date)
          IN  /\ endDate < startDate =>
                    /\ http.pc = "responded"
                    /\ http.status = 400
                    /\ http.body = Nil
                    /\ http.calls = <<>>
                    /\ pc = "idle"
                    /\ fetches = <<>>
              /\ endDate >= startDate => http.error # "Invalid date range"
    /\ pc # "idle" => args.endDate >= args.startDate

C21_Witness ==
    /\ http.pc = "responded"
    /\ http.request.farm_id = "1"
    /\ http.request.sector_id = ""
    /\ http.request.start_date = DateOnly(2024, 3, 1)
    /\ http.request.end_date = DateOnly(2024, 2, 28)
    /\ http.request.aggregation = <<"daily">>
    /\ http.status = 400
    /\ http.error = "Invalid date range"

\* every check of the query parameters passes on the request served
ParametersValid ==
    LET req == http.request
    IN  /\ req.farm_id \in {"0", "1", "9"}
        /\ req.sector_id \in {"", "0", "1", "9"}
        /\ DatesParse
        /\ InstantOf(req.end_date) >= InstantOf(req.start_date)
        /\ req.aggregation \in {<<>>, <<"daily">>, <<"weekly">>, <<"monthly">>}

\* C22: the steps of one request happen in a fixed order.  Every parameter
\* check precedes the FarmExists call, and GetIrrigationAnalytics is called
\* only after FarmExists returned true without error; a request failing a
\* parameter check makes no service call, and a request for a farm that does
\* not exist gets 404 without GetIrrigationAnalytics being called.
C22_ControllerOrder ==
    /\ http.calls \in {<<>>, <<"FarmExists">>, <<"FarmExists", "GetIrrigationAnalytics">>}
    /\ http.calls # <<>> => (ParametersValid /\ http.farmExists # <<>>)
    /\ http.farmExists # <<>> => http.calls # <<>>
    /\ (http.pc # "idle" /\ ~ParametersValid) =>
          /\ http.pc = "responded"
          /\ http.status = 400
          /\ http.calls = <<>>
    /\ http.calls = <<"FarmExists", "GetIrrigationAnalytics">> =>
          /\ http.farmExists[1].exists
          /\ http.farmExists[1].err = "nil"
    /\ (http.farmExists # <<>> /\ http.farmExists[1].err = "nil"
            /\ ~http.farmExists[1].exists) =>
          /\ http.pc = "responded"
          /\ http.status = 404
          /\ http.calls = <<"FarmExists">>
    /\ (http.pc # "idle" /\ ParametersValid /\ http.request.farm_id = "9"
            /\ http.farmExists # <<>>) => ~http.farmExists[1].exists
    /\ pc # "idle" => (http.pc = "service"
                       /\ http.calls = <<"FarmExists", "GetIrrigationAnalytics">>)

C22_Witness ==
    /\ http.pc = "responded"
    /\ http.request.farm_id = "9"
    /\ http.status = 404
    /\ http.error = "Farm not found"
    /\ http.calls = <<"FarmExists">>
    /\ http.farmExists = <<[exists |-> FALSE, err |-> "nil"]>>

\* C23: whenever GetIrrigationAnalytics returns an error for a validated
\* request on an existing farm, the controller answers 500 with a body that
\* holds no analytics; it answers 200 with the analytics result only when the
\* service returned no error.
C23_ServiceErrorIs500 ==
    [][ (http.pc = "service" /\ http'.pc = "responded") =>
            /\ pc = "returned"
            /\ err # "nil" =>
                  /\ http'.status = 500
                  /\ http'.error = "Internal server error"
                  /\ http'.body = Nil
            /\ err = "nil" =>
                  /\ http'.status = 200
                  /\ http'.body = resp
                  /\ resp # Nil
            /\ http'.status = 200 => err = "nil" ]_vars

C23_Witness ==
    /\ http.pc = "responded"
    /\ http.calls = <<"FarmExists", "GetIrrigationAnalytics">>
    /\ http.status = 500
    /\ http.message = "Failed to retrieve analytics data"
    /\ http.body = Nil

\* the parsed start and end of the request served are the same instant
EmptyPeriod ==
    /\ http.pc # "idle"
    /\ DatesParse
    /\ InstantOf(http.request.start_date) = InstantOf(http.request.end_date)

\* C24: a request whose end_date equals its start_date is accepted, and the
\* half-open window [start, end) then holds no event: when the query of the
\* window succeeds the call succeeds with an empty, non-nil data list and a
\* summary whose totals and average efficiency are all 0.
C24_EmptyPeriodSucceeds ==
    EmptyPeriod =>
        /\ http.error # "Invalid date range"
        /\ pc # "idle" => args.startDate = args.endDate
        /\ CurrentFetched =>
              /\ fetches[1].rows = 0
              /\ currentData = <<>>
              /\ dataPoints = Slice(<<>>)
              /\ summary.TotalWaterVolume = 0
              /\ summary.TotalDuration = 0
              /\ summary.TotalRealAmount = 0
              /\ summary.TotalNominalAmount = 0
              /\ summary.TotalEvents = 0
              /\ summary.AverageEfficiency = 0
        /\ (CurrentFetched /\ Returned) =>
              /\ err = "nil"
              /\ resp # Nil
              /\ resp[1].Data = Slice(<<>>)
              /\ ~resp[1].Data.isNil
              /\ resp[1].Summary = summary
        /\ (http.pc = "responded" /\ Len(http.calls) = 2 /\ CurrentFetched) =>
              /\ http.status = 200
              /\ http.body = resp

C24_Witness ==
    /\ EmptyPeriod
    /\ Answered
    /\ Event(1, 1, WindowStart, Recorded) \in store
    /\ http.request.farm_id = "1"
    /\ http.request.sector_id = ""
    /\ http.request.start_date = DateOnly(2024, 3, 1)
    /\ http.body[1].Data = Slice(<<>>)
    /\ http.body[1].Summary.TotalEvents = 0

\* C25: whether a sector filter is present is decided by whether the
\* optional value is set, not by its number.  A request with sector_id = 0 is
\* scoped to sector 0: every query of the call filters on sector 0, there is
\* no sector-wide query and no sector_breakdown, and the response echoes
\* sector_id 0; a request without sector_id is not scoped.
C25_SectorZeroIsAFilter ==
    /\ (http.request.sector_id = "0" /\ pc # "idle") =>
          /\ args.sectorID = {0}
          /\ \A i \in 1..Len(fetches) :
                /\ fetches[i].sectorID = {0}
                /\ fetches[i].caller # "sectorBreakdown"
          /\ CurrentFetched =>
                currentData \in GetAggregatedData(store, args.farmID, {0}, args.startDate,
                                                  args.endDate, args.aggregation)
          /\ Succeeded =>
                /\ resp[1].SectorID = {0}
                /\ resp[1].SectorBreakdown = NilSlice
    /\ (http.request.sector_id = "" /\ pc # "idle") =>
          /\ args.sectorID = {}
          /\ Succeeded =>
                /\ resp[1].SectorID = {}
                /\ ~resp[1].SectorBreakdown.isNil
    /\ (Answered /\ http.request.sector_id = "0") =>
          /\ http.body[1].SectorID = {0}
          /\ http.body[1].SectorBreakdown = NilSlice
    /\ (Answered /\ http.request.sector_id = "") =>
          /\ http.body[1].SectorID = {}
          /\ ~http.body[1].SectorBreakdown.isNil

C25_Witness ==
    /\ Answered
    /\ http.request.sector_id = "0"
    /\ http.body[1].SectorID = {0}
    /\ http.body[1].SectorBreakdown = NilSlice
    /\ http.body[1].Summary.TotalEvents = 1
    /\ store = {Event(1, 1, WindowStart, Recorded), Event(1, 0, Day2, Legacy)}

\* C26: the data list corresponds one-to-one and in the same order to the
\* buckets returned by the query of the current window: it has the same
\* length, its i-th entry carries the start timestamp, volume, duration, real
\* and nominal amounts and event_count of the i-th bucket unchanged, and it is
\* ascending by period whenever the query result is.
C26_DataMirrorsBuckets ==
    /\ CurrentFetched =>
          /\ Len(dataPoints.items) = Len(currentData)
          /\ Len(currentData) = fetches[1].rows
          /\ \A i \in 1..Len(currentData) :
                /\ dataPoints.items[i].Period = currentData[i].StartTime
                /\ dataPoints.items[i].WaterVolume = currentData[i].WaterVolume
                /\ dataPoints.items[i].Duration = currentData[i].Duration
                /\ dataPoints.items[i].RealAmount = currentData[i].RealAmount
                /\ dataPoints.items[i].NominalAmount = currentData[i].NominalAmount
                /\ dataPoints.items[i].EventCount = currentData[i].EventCount
          /\ (\A i, j \in 1..Len(currentData) :
                  i < j => currentData[i].StartTime <= currentData[j].StartTime)
             => \A i, j \in 1..Len(dataPoints.items) :
                  i < j => dataPoints.items[i].Period <= dataPoints.items[j].Period
    /\ Succeeded => resp[1].Data = dataPoints

C26_Witness ==
    /\ Succeeded
    /\ Len(currentData) = 2
    /\ currentData[1].StartTime < currentData[2].StartTime
    /\ resp[1].Data.items[1].Period = currentData[1].StartTime
    /\ resp[1].Data.items[2].Period = currentData[2].StartTime
    /\ resp[1].Data.items[1].EventCount + resp[1].Data.items[2].EventCount = 2

\* the sector-wide query of the call has been made and has succeeded
BreakdownFetched ==
    /\ pc # "idle"
    /\ \E i \in 1..Len(fetches) :
          fetches[i].caller = "sectorBreakdown" /\ fetches[i].error = "nil"

\* the buckets the sector-wide query of the call selects
BreakdownBuckets ==
    Buckets(store, args.farmID, {}, args.startDate, args.endDate, args.aggregation)

\* C27: for a call without a sector filter whose sector-wide query succeeds,
\* sector_breakdown has exactly one entry for each distinct sector id among
\* the fetched buckets and none for any other sector, no sector id appears
\* twice, and each entry's total_events is the sum of event_count over that
\* sector's buckets.
C27_OneEntryPerSector ==
    BreakdownFetched =>
        LET items == sectorBreakdown.items
            ids == {b.IrrigationSectorID : b \in BreakdownBuckets}
        IN  /\ args.sectorID = {}
            /\ ~sectorBreakdown.isNil
            /\ {items[i].SectorID : i \in 1..Len(items)} = ids
            /\ Len(items) = Cardinality(ids)
            /\ \A i, j \in 1..Len(items) : items[i].SectorID = items[j].SectorID => i = j
            /\ \A i \in 1..Len(items) :
                  items[i].TotalEvents =
                      SumOf({b \in BreakdownBuckets : b.IrrigationSectorID = items[i].SectorID},
                            "EventCount")
            /\ Succeeded => resp[1].SectorBreakdown = sectorBreakdown

C27_Witness ==
    /\ Succeeded
    /\ BreakdownFetched
    /\ Cardinality(BreakdownBuckets) = 2
    /\ Len(resp[1].SectorBreakdown.items) = 1
    /\ resp[1].SectorBreakdown.items[1].TotalEvents = 2

\* C28: for a call without a sector filter over a store that does not change
\* during the call, when both the query of the current window and the
\* sector-wide query succeed, the total_events of the sector_breakdown entries
\* add up to summary.total_events.
C28_BreakdownAddsUpToSummary ==
    (CurrentFetched /\ BreakdownFetched) =>
        /\ SeqSum(sectorBreakdown.items, "TotalEvents", Len(sectorBreakdown.items))
              = summary.TotalEvents
        /\ Succeeded =>
              SeqSum(resp[1].SectorBreakdown.items, "TotalEvents",
                     Len(resp[1].SectorBreakdown.items))
                 = resp[1].Summary.TotalEvents

C28_Witness ==
    /\ Succeeded
    /\ CurrentFetched
    /\ BreakdownFetched
    /\ Len(resp[1].SectorBreakdown.items) = 2
    /\ resp[1].SectorBreakdown.items[1].TotalEvents = 1
    /\ resp[1].SectorBreakdown.items[2].TotalEvents = 1
    /\ resp[1].Summary.TotalEvents = 2

\* the sum of the values of a map
RECURSIVE MapSum(_)
MapSum(m) ==
    IF DOMAIN m = {} THEN 0
    ELSE LET k == CHOOSE x \in DOMAIN m : TRUE
         IN  m[k] + MapSum([x \in DOMAIN m \ {k} |-> m[x]])

\* C29: in every snapshot GetMetrics returns, under any interleaving of
\* requests, TotalRequests equals the sum of all RequestsByEndpoint values.
C29_SnapshotConsistent ==
    /\ reader.pc \in {"copied", "idle"} =>
          reader.snapshot.TotalRequests = MapSum(reader.snapshot.RequestsByEndpoint)
    /\ reader.pc = "totalRead" =>
          reader.snapshot.TotalRequests = MapSum(metrics.RequestsByEndpoint)

C29_Witness ==
    /\ reader.pc = "idle"
    /\ reader.snapshot.TotalRequests = 2
    /\ Cardinality(DOMAIN reader.snapshot.RequestsByEndpoint) = 2
    /\ MapSum(reader.snapshot.RequestsByEndpoint) = 2
    /\ \E r \in Requests : requests[r].pc = "endpointStored"
    /\ metrics.TotalRequests = 3

\* C30: for every window with start <= end and each N in {1, 2}, the window
\* shifted back N calendar years also has shifted start <= shifted end,
\* windows whose bounds fall on or next to 29 February included, so that no
\* historical window queried ends before it starts.
C30_ShiftedWindowOrdered ==
    (calc.op = "historicalWindow" /\ calc.startDate <= calc.endDate) =>
        calc.result.yearStart <= calc.result.yearEnd

====
